---- MODULE Spec2Model ----
(***************************************************************************)
(* Keep-segment planner of the silence-removing video editor:              *)
(* VideoEditingAgent.generate_keep_segments                                *)
(* (src/agents/video_editing_agent.py, lines 102-144).                     *)
(*                                                                         *)
(* An interval is a pair <<start_ms, end_ms>>; Python's segment[0] and     *)
(* segment[1] are [1] and [2] here.  A millisecond t lies in an interval   *)
(* when start <= t < end.  The planner is modelled statement by statement: *)
(* one step per iteration of the scan loop, one for the final segment,     *)
(* one per iteration of the merge loop, one for the return.                *)
(*                                                                         *)
(* The second half models edit_video (lines 237-315) with the calls it     *)
(* makes: get_video_duration_ms (146-160), detect_silences (37-100), the   *)
(* planner, and assemble_video (162-235).  The external programs (ffprobe, *)
(* ffmpeg, the pydub decoder) are the environment: each invocation ends    *)
(* with a zero status, ends with a non-zero status, or never exits.        *)
(***************************************************************************)
EXTENDS Integers, Sequences, FiniteSets

VARIABLES
    video_duration_ms,  \* argument: total duration
    silences,           \* argument: list of silence intervals
    padding_ms,         \* argument: padding around cuts
    keep_segments,      \* local: intervals emitted by the scan
    current_pos,        \* local: the cursor
    i,                  \* scan loop: index of the next silence to visit
    merged,             \* local: output of the merge pass
    j,                  \* merge loop: index of the next emitted segment
    result,             \* the returned list (<<>> until the return)
    pc,                 \* "idle", "scan", "merge", "done"
    epc,                \* edit_video: the statement to run next; "none"
                        \* when the planner is called on its own
    source_exists,      \* os.path.exists(screen_recording)
    same_path,          \* output_path names the file screen_recording names
    dest_before,        \* history: the file at output_path when the call began
    tool_installed,     \* ffprobe / ffmpeg are on the PATH
    media_ms,           \* true duration of the source video
    silence_thresh,     \* argument of edit_video
    min_silence_ms,     \* argument of edit_video
    original_duration_ms, \* edit_video local
    temp_files,         \* temporary files on disk: <<kind, index>>
    segment_files,      \* assemble_video local: indices of the segment paths
    manifest,           \* lines written to concat_list.txt
    dest,               \* file at output_path: "absent", "old", "partial",
                        \* "complete"
    dest_content,       \* source intervals a complete output is made of
    final_duration_ms,  \* edit_video local
    edit_result,        \* <<>> or <<the dictionary edit_video returned>>
    raised,             \* class of the exception edit_video raised, or "none"
    steps               \* history: <<step, outcome>> of every step started

plan_vars == <<video_duration_ms, silences, padding_ms, keep_segments,
               current_pos, i, merged, j, result, pc>>

edit_vars == <<epc, source_exists, same_path, dest_before, tool_installed,
               media_ms, silence_thresh, min_silence_ms, original_duration_ms, temp_files,
               segment_files, manifest, dest, dest_content,
               final_duration_ms, edit_result, raised, steps>>

vars == <<plan_vars, edit_vars>>

----------------------------------------------------------------------------
(* Bounds of the explored inputs *)

\* longest silence list
MaxSilences == 2
\* largest total duration, in grid steps
MaxTick == 12
\* largest padding, in grid steps
MaxPadTick == 3

----------------------------------------------------------------------------
(* Program constants and helpers *)

\* line 138: "Less than 50ms gap"
MergeGap == 50

\* grid of the explored offsets: a fifth of the merge gap, so that gaps just
\* below, at and just above the merge gap all occur
Step == MergeGap \div 5

Min(a, b) == IF a < b THEN a ELSE b
Max(a, b) == IF a > b THEN a ELSE b

RECURSIVE SumLen(_)
\* sum(end - start for start, end in segs)
SumLen(segs) ==
    IF segs = <<>> THEN 0
    ELSE (Head(segs)[2] - Head(segs)[1]) + SumLen(Tail(segs))

----------------------------------------------------------------------------
(* The statements of generate_keep_segments *)

KeepBeforeDoublePadding(silence_start, pos, padding) ==
    silence_start > pos + 2 * padding

KeepBeforeOrEqual(silence_start, pos, padding) ==
    silence_start >= pos + padding

\* line 124: if silence_start > current_pos + padding_ms
KeepBefore(silence_start, pos, padding) ==
    silence_start > pos + padding

SegmentEndNoPadding(silence_start, padding, duration) ==
    Min(silence_start, duration)

\* line 125: segment_end = min(silence_start + padding_ms, video_duration_ms)
SegmentEnd(silence_start, padding, duration) ==
    Min(silence_start + padding, duration)

MovePastUnclamped(silence_end, padding, pos) ==
    silence_end - padding

MovePastMin(silence_end, padding, pos) ==
    Min(silence_end - padding, pos)

MovePastDoublePadding(silence_end, padding, pos) ==
    Max(silence_end - 2 * padding, pos)

\* line 129: current_pos = max(silence_end - padding_ms, current_pos)
MovePast(silence_end, padding, pos) ==
    Max(silence_end - padding, pos)

KeepFinalInverted(pos, duration) ==
    pos > duration

\* line 132: if current_pos < video_duration_ms
KeepFinal(pos, duration) ==
    pos < duration

CloseGapNoOverlap(last, segment) ==
    /\ segment[1] - last[2] >= 0
    /\ segment[1] - last[2] < MergeGap

CloseGapInclusive(last, segment) ==
    segment[1] - last[2] <= MergeGap

\* line 138: segment[0] - merged[-1][1] < 50
CloseGap(last, segment) ==
    segment[1] - last[2] < MergeGap

\* lines 138-141: one iteration of the merge loop
MergeSegment(m, segment) ==
    IF m # <<>> /\ CloseGap(m[Len(m)], segment)
    THEN [m EXCEPT ![Len(m)] = <<m[Len(m)][1], segment[2]>>]
    ELSE Append(m, segment)

----------------------------------------------------------------------------
(* Inputs *)

Ticks(n) == {Step * k : k \in 0..n}

\* intervals with start < end inside [0, duration], starting at lo or later
IntervalsFrom(lo, duration) ==
    {iv \in Ticks(MaxTick) \X Ticks(MaxTick) :
        lo <= iv[1] /\ iv[1] < iv[2] /\ iv[2] <= duration}

RECURSIVE SilenceListsFrom(_, _, _)
\* sorted lists of at most n pairwise non-overlapping intervals (touching
\* allowed) inside [lo, duration]: what the planner's contract admits
SilenceListsFrom(lo, n, duration) ==
    IF n = 0 THEN {<<>>}
    ELSE {<<>>} \cup
         UNION {{<<iv>> \o rest : rest \in SilenceListsFrom(iv[2], n - 1, duration)}
                : iv \in IntervalsFrom(lo, duration)}

\* the worked example: 10 s of media, two silences, the default padding
Example ==
    [video_duration_ms |-> 10000,
     silences |-> <<<<2000, 3000>>, <<6000, 6500>>>>,
     padding_ms |-> 100]

\* the planner's input contract: duration > 0, padding >= 0, silences sorted,
\* pairwise non-overlapping, each with start < end inside [0, duration]
ValidInput ==
    /\ video_duration_ms > 0
    /\ padding_ms >= 0
    /\ \A k \in 1..Len(silences) :
          /\ 0 <= silences[k][1]
          /\ silences[k][1] < silences[k][2]
          /\ silences[k][2] <= video_duration_ms
    /\ \A k \in 1..(Len(silences) - 1) : silences[k][2] <= silences[k + 1][1]

----------------------------------------------------------------------------
(* The state machine *)

\* edit_video is not running: the planner was called on its own
NoEdit ==
    /\ epc = "none"
    /\ source_exists = TRUE
    /\ same_path = FALSE
    /\ dest_before = "absent"
    /\ tool_installed = TRUE
    /\ media_ms = 0
    /\ silence_thresh = 0
    /\ min_silence_ms = 0
    /\ original_duration_ms = 0
    /\ temp_files = {}
    /\ segment_files = <<>>
    /\ manifest = <<>>
    /\ dest = "absent"
    /\ dest_content = <<>>
    /\ final_duration_ms = 0
    /\ edit_result = <<>>
    /\ raised = "none"
    /\ steps = <<>>

\* lines 119-120, with the arguments of one call
Init ==
    /\ \/ /\ video_duration_ms \in Ticks(MaxTick) \ {0}
          /\ padding_ms \in Ticks(MaxPadTick)
          /\ silences \in SilenceListsFrom(0, MaxSilences, video_duration_ms)
       \/ /\ video_duration_ms = Example.video_duration_ms
          /\ padding_ms = Example.padding_ms
          /\ silences = Example.silences
    /\ keep_segments = <<>>
    /\ current_pos = 0
    /\ i = 1
    /\ merged = <<>>
    /\ j = 1
    /\ result = <<>>
    /\ pc = "scan"
    /\ NoEdit

\* lines 122-129: one iteration of the scan loop
ScanSilence ==
    /\ pc = "scan"
    /\ i <= Len(silences)
    /\ LET silence_start == silences[i][1]
           silence_end == silences[i][2]
       IN /\ keep_segments' =
                IF KeepBefore(silence_start, current_pos, padding_ms)
                THEN Append(keep_segments,
                            <<current_pos,
                              SegmentEnd(silence_start, padding_ms, video_duration_ms)>>)
                ELSE keep_segments
          /\ current_pos' = MovePast(silence_end, padding_ms, current_pos)
    /\ i' = i + 1
    /\ UNCHANGED <<video_duration_ms, silences, padding_ms, merged, j, result, pc>>
    /\ UNCHANGED edit_vars

\* lines 131-133: the scan loop is over; keep the final segment
FinalSegment ==
    /\ pc = "scan"
    /\ i > Len(silences)
    /\ keep_segments' =
          IF KeepFinal(current_pos, video_duration_ms)
          THEN Append(keep_segments, <<current_pos, video_duration_ms>>)
          ELSE keep_segments
    /\ pc' = "merge"
    /\ UNCHANGED <<video_duration_ms, silences, padding_ms, current_pos, i,
                   merged, j, result>>
    /\ UNCHANGED edit_vars

\* lines 137-141: one iteration of the merge loop
MergeStep ==
    /\ pc = "merge"
    /\ j <= Len(keep_segments)
    /\ merged' = MergeSegment(merged, keep_segments[j])
    /\ j' = j + 1
    /\ UNCHANGED <<video_duration_ms, silences, padding_ms, keep_segments,
                   current_pos, i, result, pc>>
    /\ UNCHANGED edit_vars

\* lines 143-144: return merged
Return ==
    /\ pc = "merge"
    /\ j > Len(keep_segments)
    /\ result' = merged
    /\ pc' = "done"
    /\ UNCHANGED <<video_duration_ms, silences, padding_ms, keep_segments,
                   current_pos, i, merged, j>>
    /\ UNCHANGED edit_vars

Next == ScanSilence \/ FinalSegment \/ MergeStep \/ Return

Spec == Init /\ [][Next]_vars

----------------------------------------------------------------------------
(* edit_video: inputs and the environment *)

\* largest source duration of an edit, in units of the merge gap
EditMaxTick == 5

EditTicks == {MergeGap * k : k \in 0..EditMaxTick}

\* the settings a caller passes: two well-formed ones, and one malformed in
\* each of padding_ms, min_silence_ms and silence_thresh
EditSettings ==
    {[silence_thresh |-> -40, min_silence_ms |-> MergeGap, padding_ms |-> 0],
     [silence_thresh |-> -40, min_silence_ms |-> 2 * MergeGap, padding_ms |-> MergeGap],
     [silence_thresh |-> -40, min_silence_ms |-> MergeGap, padding_ms |-> -MergeGap],
     [silence_thresh |-> -40, min_silence_ms |-> -MergeGap, padding_ms |-> 0],
     [silence_thresh |-> 0, min_silence_ms |-> MergeGap, padding_ms |-> 0]}

\* threshold negative, min_silence_ms and padding_ms non-negative
ValidSettings ==
    /\ silence_thresh < 0
    /\ min_silence_ms >= 0
    /\ padding_ms >= 0

RECURSIVE DetectableFrom(_, _, _, _)
\* what pydub's detect_silence can return for an audio track of length
\* audio_ms: sorted, disjoint ranges inside the track, each at least
\* min_len long
DetectableFrom(lo, n, audio_ms, min_len) ==
    IF n = 0 THEN {<<>>}
    ELSE {<<>>} \cup
         UNION {{<<iv>> \o rest :
                    rest \in DetectableFrom(iv[2], n - 1, audio_ms, min_len)}
                : iv \in {x \in EditTicks \X EditTicks :
                             /\ lo <= x[1]
                             /\ x[1] < x[2]
                             /\ x[2] <= audio_ms
                             /\ x[2] - x[1] >= min_len}}

\* lengths the decoded audio track can have: the code never compares
\* len(audio) (line 86) with the duration ffprobe reported (line 160), and
\* a container can report less than its audio stream lasts
AudioLengths(container_ms) == {t \in EditTicks : t >= container_ms}

\* how one invocation of an external program can end
ToolOutcomes == {"ok", "nonzero", "hang"}

\* ffprobe: not on the PATH, or run on a file that does not exist, or any
\* outcome
ProbeOutcomes(installed, exists) ==
    IF ~installed THEN {"missing"}
    ELSE IF ~exists THEN {"nonzero"}
    ELSE ToolOutcomes

\* ffmpeg -ss start -t duration: an empty or negative duration may be
\* refused or may give an empty file
SegmentOutcomes(segment) ==
    IF segment[1] < segment[2] THEN ToolOutcomes ELSE {"ok", "nonzero"}

\* what one extraction leaves at segment_path: the segment when ffmpeg
\* succeeds; when it fails nothing, or a file cut short, or the segment
\* (written before the error that set the return code)
SegmentLeft(rc, segment, k) ==
    IF rc = "ok" THEN {{<<"segment", k>>}}
    ELSE {{}, {<<"truncated", k>>}} \cup
         (IF segment[1] < segment[2] THEN {{<<"segment", k>>}} ELSE {})

\* the part of the source a segment file holds: the interval asked for,
\* nothing when the interval is empty or reversed or the file was cut short
SegmentContent(files, segment, k) ==
    IF <<"segment", k>> \in files /\ segment[1] < segment[2]
    THEN segment
    ELSE <<segment[1], segment[1]>>

\* ffmpeg -f concat: an empty list, or a listed file that does not exist,
\* is refused
ConcatOutcomes(listed, files) ==
    IF \/ listed = <<>>
       \/ \E k \in 1..Len(listed) :
             /\ <<"segment", listed[k]>> \notin files
             /\ <<"truncated", listed[k]>> \notin files
    THEN {"nonzero"}
    ELSE ToolOutcomes

----------------------------------------------------------------------------
(* edit_video: what the code does with an outcome *)

\* the subprocess.run calls that pass timeout=: only the audio extraction
\* (line 77); lines 155, 205 and 229 pass none
HasTimeout(step) == step = "extract_audio"

\* subprocess.run blocks for ever on a program that never exits, unless
\* the call has a timeout
Blocks(step, rc) == rc = "hang" /\ ~HasTimeout(step)

WritesOutputFromAudio(step) == step \in {"extract_audio", "concat"}

\* the file each ffmpeg -y invocation names as its output: the temporary wav
\* (lines 65-72), segment_path in the temporary directory (lines 193-201),
\* output_path (lines 218-225): only the concatenation writes output_path
WritesOutput(step) == step = "concat"

\* the file at output_path once an invocation that is not the concatenation
\* has started
OutputAfter(step, d) == IF WritesOutput(step) THEN "partial" ELSE d

SourceMissingIgnored(exists) == FALSE

\* line 263: if not os.path.exists(screen_recording)
SourceMissing(exists) == ~exists

ProbeRaisesNever(rc) ==
    IF rc = "missing" THEN "FileNotFoundError" ELSE "none"

\* lines 155-157: subprocess.run raises FileNotFoundError for a missing
\* program; a non-zero return code raises RuntimeError
ProbeRaises(rc) ==
    CASE rc = "missing" -> "FileNotFoundError"
      [] rc = "nonzero" -> "RuntimeError"
      [] OTHER -> "none"

\* lines 73-82: timeout=300 raises TimeoutExpired; a non-zero return code
\* raises RuntimeError
AudioRaises(rc) ==
    CASE rc = "nonzero" -> "RuntimeError"
      [] rc = "hang" /\ HasTimeout("extract_audio") -> "TimeoutExpired"
      [] OTHER -> "none"

SegmentRaisesOnFailure(rc) ==
    IF rc = "nonzero" THEN "RuntimeError" ELSE "none"

\* lines 205-207: a non-zero return code is logged as a warning
SegmentRaises(rc) == "none"

ConcatRaisesNever(rc) == "none"

\* lines 229-232: a non-zero return code raises RuntimeError
ConcatRaises(rc) ==
    IF rc = "nonzero" THEN "RuntimeError" ELSE "none"

UnlinkNothing(files, path) == files

\* lines 97-100: the finally block of detect_silences
Unlink(files, path) == files \ {path}

RemoveTreeKeepsSegments(files) ==
    {f \in files : f[1] \notin {"tempdir", "concat_list"}}

\* line 182: leaving the TemporaryDirectory block removes what is in it
RemoveTree(files) ==
    {f \in files :
        f[1] \notin {"tempdir", "segment", "truncated", "concat_list"}}

RECURSIVE Reversed(_)
Reversed(seq) ==
    IF seq = <<>> THEN <<>> ELSE Append(Reversed(Tail(seq)), Head(seq))

ManifestReversed(paths) == Reversed(paths)

\* lines 211-213: one line per element of segment_files, in list order
ManifestOf(paths) == paths

\* what a successful ffmpeg -f concat -c copy writes: the listed files'
\* content, in the order of the list
ConcatContent(listed, segments, files) ==
    [k \in 1..Len(listed) |->
        SegmentContent(files, segments[listed[k]], listed[k])]

BuildResultMiscounts(orig, final, kept, detected, thresh, min_silence, padding) ==
    [original_duration_ms |-> orig,
     final_duration_ms |-> final,
     time_removed_ms |-> orig - final,
     segments_kept |-> Len(detected),
     silences_detected |-> Len(detected),
     settings |-> [silence_thresh |-> thresh,
                   min_silence_ms |-> min_silence,
                   padding_ms |-> padding]]

\* lines 300-312: the dictionary edit_video returns, its durations in
\* milliseconds (the code divides each by 1000)
BuildResult(orig, final, kept, detected, thresh, min_silence, padding) ==
    [original_duration_ms |-> orig,
     final_duration_ms |-> final,
     time_removed_ms |-> orig - final,
     segments_kept |-> Len(kept),
     silences_detected |-> Len(detected),
     settings |-> [silence_thresh |-> thresh,
                   min_silence_ms |-> min_silence,
                   padding_ms |-> padding]]

\* edit_video raises exception class exc: nothing after the raise runs
Raise(exc) ==
    /\ raised' = exc
    /\ epc' = "raised"

----------------------------------------------------------------------------
(* edit_video: the state machine *)

\* one call of edit_video, before its first statement
EditInit ==
    /\ epc = "start"
    /\ source_exists \in BOOLEAN
    /\ tool_installed \in BOOLEAN
    /\ media_ms \in EditTicks \ {0}
    /\ \E st \in EditSettings :
          /\ silence_thresh = st.silence_thresh
          /\ min_silence_ms = st.min_silence_ms
          /\ padding_ms = st.padding_ms
    /\ same_path \in BOOLEAN
    /\ dest \in IF same_path
               THEN {IF source_exists THEN "old" ELSE "absent"}
               ELSE {"absent", "old"}
    /\ dest_before = dest
    /\ dest_content = <<>>
    /\ original_duration_ms = 0
    /\ final_duration_ms = 0
    /\ temp_files = {}
    /\ segment_files = <<>>
    /\ manifest = <<>>
    /\ edit_result = <<>>
    /\ raised = "none"
    /\ steps = <<>>
    /\ video_duration_ms = 0
    /\ silences = <<>>
    /\ keep_segments = <<>>
    /\ current_pos = 0
    /\ i = 1
    /\ merged = <<>>
    /\ j = 1
    /\ result = <<>>
    /\ pc = "idle"

\* lines 262-264: validate input
CheckSource ==
    /\ epc = "start"
    /\ IF SourceMissing(source_exists)
       THEN Raise("FileNotFoundError")
       ELSE epc' = "probe" /\ UNCHANGED raised
    /\ UNCHANGED <<plan_vars, source_exists, same_path, dest_before,
                   tool_installed, media_ms,
                   silence_thresh, min_silence_ms, original_duration_ms,
                   temp_files, segment_files, manifest, dest, dest_content,
                   final_duration_ms, edit_result, steps>>

\* line 273, lines 146-160: original_duration_ms = get_video_duration_ms(...)
ProbeDuration ==
    /\ epc = "probe"
    /\ \E rc \in ProbeOutcomes(tool_installed, source_exists) :
          /\ steps' = Append(steps, <<"probe", rc>>)
          /\ IF Blocks("probe", rc)
             THEN epc' = "hung" /\ UNCHANGED <<raised, original_duration_ms>>
             ELSE IF ProbeRaises(rc) # "none"
             THEN Raise(ProbeRaises(rc)) /\ UNCHANGED original_duration_ms
             ELSE /\ epc' = "extract_audio"
                  /\ original_duration_ms' = media_ms
                  /\ UNCHANGED raised
    /\ UNCHANGED <<plan_vars, source_exists, same_path, dest_before,
                   tool_installed, media_ms,
                   silence_thresh, min_silence_ms, temp_files, segment_files,
                   manifest, dest, dest_content, final_duration_ms,
                   edit_result>>

\* lines 59-82 of detect_silences, with the finally block (97-100) when the
\* extraction raises
ExtractAudio ==
    /\ epc = "extract_audio"
    /\ LET created == temp_files \cup {<<"audio", 0>>}
       IN \E rc \in ToolOutcomes :
             /\ steps' = Append(steps, <<"extract_audio", rc>>)
             /\ IF Blocks("extract_audio", rc)
                THEN /\ epc' = "hung"
                     /\ temp_files' = created
                     /\ UNCHANGED raised
                ELSE IF AudioRaises(rc) # "none"
                THEN /\ Raise(AudioRaises(rc))
                     /\ temp_files' = Unlink(created, <<"audio", 0>>)
                ELSE /\ epc' = "detect"
                     /\ temp_files' = created
                     /\ UNCHANGED raised
    /\ dest' = OutputAfter("extract_audio", dest)
    /\ UNCHANGED <<plan_vars, source_exists, same_path, dest_before,
                   tool_installed, media_ms,
                   silence_thresh, min_silence_ms, original_duration_ms,
                   segment_files, manifest, dest_content,
                   final_duration_ms, edit_result>>

\* lines 84-100 of detect_silences: decode the audio, detect the silences,
\* and the finally block
DetectSilence ==
    /\ epc = "detect"
    /\ temp_files' = Unlink(temp_files, <<"audio", 0>>)
    /\ \/ /\ steps' = Append(steps, <<"detect", "ok">>)
          /\ \E audio_ms \in AudioLengths(media_ms) :
                silences' \in DetectableFrom(0, MaxSilences, audio_ms,
                                             min_silence_ms)
          /\ epc' = "plan"
          /\ UNCHANGED raised
       \/ /\ steps' = Append(steps, <<"detect", "error">>)
          /\ Raise("CouldntDecodeError")
          /\ UNCHANGED silences
    /\ UNCHANGED <<video_duration_ms, padding_ms, keep_segments, current_pos,
                   i, merged, j, result, pc>>
    /\ UNCHANGED <<source_exists, same_path, dest_before, tool_installed,
                   media_ms, silence_thresh,
                   min_silence_ms, original_duration_ms, segment_files,
                   manifest, dest, dest_content, final_duration_ms,
                   edit_result>>

\* lines 283-292 and 119-120: call generate_keep_segments
StartPlan ==
    /\ epc = "plan"
    /\ steps' = Append(steps, <<"plan", "ok">>)
    /\ video_duration_ms' = original_duration_ms
    /\ keep_segments' = <<>>
    /\ current_pos' = 0
    /\ i' = 1
    /\ merged' = <<>>
    /\ j' = 1
    /\ result' = <<>>
    /\ pc' = "scan"
    /\ epc' = "planning"
    /\ UNCHANGED <<silences, padding_ms>>
    /\ UNCHANGED <<source_exists, same_path, dest_before, tool_installed,
                   media_ms, silence_thresh,
                   min_silence_ms, original_duration_ms, temp_files,
                   segment_files, manifest, dest, dest_content,
                   final_duration_ms, edit_result, raised>>

\* lines 295 and 179-183: the planner returned; enter assemble_video
EnterAssemble ==
    /\ epc = "planning"
    /\ pc = "done"
    /\ steps' = Append(steps, <<"assemble", "ok">>)
    /\ temp_files' = temp_files \cup {<<"tempdir", 0>>}
    /\ segment_files' = <<>>
    /\ epc' = "extract"
    /\ UNCHANGED <<plan_vars, source_exists, same_path, dest_before,
                   tool_installed, media_ms,
                   silence_thresh, min_silence_ms, original_duration_ms,
                   manifest, dest, dest_content, final_duration_ms,
                   edit_result, raised>>

\* lines 186-207: one iteration of the extraction loop; index k here is
\* Python's i + 1
ExtractSegment ==
    /\ epc = "extract"
    /\ Len(segment_files) < Len(result)
    /\ LET k == Len(segment_files) + 1
       IN /\ segment_files' = Append(segment_files, k)
          /\ \E rc \in SegmentOutcomes(result[k]) :
                /\ steps' = Append(steps, <<"extract_segment", rc>>)
                /\ IF Blocks("extract_segment", rc)
                   THEN epc' = "hung" /\ UNCHANGED <<raised, temp_files>>
                   ELSE IF SegmentRaises(rc) # "none"
                   THEN /\ Raise(SegmentRaises(rc))
                        /\ temp_files' = RemoveTree(temp_files)
                   ELSE /\ \E left \in SegmentLeft(rc, result[k], k) :
                              temp_files' = temp_files \cup left
                        /\ UNCHANGED <<epc, raised>>
          /\ dest' = OutputAfter("extract_segment", dest)
    /\ UNCHANGED <<plan_vars, source_exists, same_path, dest_before,
                   tool_installed, media_ms,
                   silence_thresh, min_silence_ms, original_duration_ms,
                   manifest, dest_content, final_duration_ms,
                   edit_result>>

\* lines 209-213: the extraction loop is over; write concat_list.txt
WriteManifest ==
    /\ epc = "extract"
    /\ Len(segment_files) = Len(result)
    /\ manifest' = ManifestOf(segment_files)
    /\ temp_files' = temp_files \cup {<<"concat_list", 0>>}
    /\ epc' = "concat"
    /\ UNCHANGED <<plan_vars, source_exists, same_path, dest_before,
                   tool_installed, media_ms,
                   silence_thresh, min_silence_ms, original_duration_ms,
                   segment_files, dest, dest_content, final_duration_ms,
                   edit_result, raised, steps>>

\* lines 215-235: concatenate into output_path and leave the
\* TemporaryDirectory block, by return or by raise
Concat ==
    /\ epc = "concat"
    /\ \E rc \in ConcatOutcomes(manifest, temp_files) :
          /\ steps' = Append(steps, <<"concat", rc>>)
          /\ IF Blocks("concat", rc)
             THEN /\ epc' = "hung"
                  /\ UNCHANGED <<raised, temp_files, dest, dest_content>>
             ELSE /\ temp_files' = RemoveTree(temp_files)
                  /\ IF rc = "ok"
                     THEN /\ dest' = "complete"
                          /\ dest_content' =
                                ConcatContent(manifest, result, temp_files)
                     ELSE /\ dest' \in {dest, "partial"}
                          /\ UNCHANGED dest_content
                  /\ IF ConcatRaises(rc) # "none"
                     THEN Raise(ConcatRaises(rc))
                     ELSE epc' = "probe_final" /\ UNCHANGED raised
    /\ UNCHANGED <<plan_vars, source_exists, same_path, dest_before,
                   tool_installed, media_ms,
                   silence_thresh, min_silence_ms, original_duration_ms,
                   segment_files, manifest, final_duration_ms, edit_result>>

\* line 298, lines 146-160: final_duration_ms = get_video_duration_ms(...)
ProbeFinal ==
    /\ epc = "probe_final"
    /\ \E rc \in ProbeOutcomes(tool_installed, dest # "absent") :
          /\ steps' = Append(steps, <<"probe_final", rc>>)
          /\ IF Blocks("probe_final", rc)
             THEN epc' = "hung" /\ UNCHANGED <<raised, final_duration_ms>>
             ELSE IF ProbeRaises(rc) # "none"
             THEN Raise(ProbeRaises(rc)) /\ UNCHANGED final_duration_ms
             ELSE /\ epc' = "build"
                  /\ final_duration_ms' = SumLen(dest_content)
                  /\ UNCHANGED raised
    /\ UNCHANGED <<plan_vars, source_exists, same_path, dest_before,
                   tool_installed, media_ms,
                   silence_thresh, min_silence_ms, original_duration_ms,
                   temp_files, segment_files, manifest, dest, dest_content,
                   edit_result>>

\* lines 300-315: build the result and return it
ReturnResult ==
    /\ epc = "build"
    /\ steps' = Append(steps, <<"result", "ok">>)
    /\ edit_result' = <<BuildResult(original_duration_ms, final_duration_ms,
                                    result, silences, silence_thresh,
                                    min_silence_ms, padding_ms)>>
    /\ epc' = "returned"
    /\ UNCHANGED <<plan_vars, source_exists, same_path, dest_before,
                   tool_installed, media_ms,
                   silence_thresh, min_silence_ms, original_duration_ms,
                   temp_files, segment_files, manifest, dest, dest_content,
                   final_duration_ms, raised>>

EditNext ==
    \/ CheckSource
    \/ ProbeDuration
    \/ ExtractAudio
    \/ DetectSilence
    \/ StartPlan
    \/ ScanSilence
    \/ FinalSegment
    \/ MergeStep
    \/ Return
    \/ EnterAssemble
    \/ ExtractSegment
    \/ WriteManifest
    \/ Concat
    \/ ProbeFinal
    \/ ReturnResult

EditSpec == EditInit /\ [][EditNext]_vars

----------------------------------------------------------------------------
(* The planner called on its own with arbitrary arguments *)

\* largest offset of an arbitrary argument, in grid steps
AnyMaxTick == 2

\* offsets of arbitrary arguments: negative ones included
AnyTicks == {Step * k : k \in -1..AnyMaxTick}

\* any pair of offsets: reversed, empty and out-of-range intervals included
AnyIntervals == AnyTicks \X AnyTicks

\* lists of at most two arbitrary intervals, in any order
AnySilenceLists ==
    {<<>>} \cup {<<a>> : a \in AnyIntervals}
           \cup {<<a, b>> : a \in AnyIntervals, b \in AnyIntervals}

\* lines 102-107 and 119-120: a call with arguments nothing has checked
AnyInit ==
    /\ video_duration_ms \in AnyTicks
    /\ padding_ms \in {-Step, 0, Step}
    /\ silences \in AnySilenceLists
    /\ keep_segments = <<>>
    /\ current_pos = 0
    /\ i = 1
    /\ merged = <<>>
    /\ j = 1
    /\ result = <<>>
    /\ pc = "scan"
    /\ NoEdit

AnySpec == AnyInit /\ [][Next]_vars

----------------------------------------------------------------------------
(* The planner called on its own with silences that overlap *)

\* longest media of a call with overlapping silences, in grid steps
OverlapMaxTick == 7

\* intervals with start < end inside [0, duration]
OverlapIntervals(duration) ==
    {iv \in Ticks(OverlapMaxTick) \X Ticks(OverlapMaxTick) :
        iv[1] < iv[2] /\ iv[2] <= duration}

\* lists of at most three such intervals sorted by start and otherwise
\* free: nested, overlapping, touching and equal intervals included
OverlapSilenceLists(duration) ==
    LET all == OverlapIntervals(duration)
    IN {<<>>} \cup {<<a>> : a \in all}
          \cup {s \in all \X all : s[1][1] <= s[2][1]}
          \cup {s \in all \X all \X all :
                    s[1][1] <= s[2][1] /\ s[2][1] <= s[3][1]}

\* lines 102-107 and 119-120: a call whose silences are only sorted by start
OverlapInit ==
    /\ video_duration_ms \in Ticks(OverlapMaxTick) \ {0}
    /\ padding_ms \in Ticks(MaxPadTick)
    /\ silences \in OverlapSilenceLists(video_duration_ms)
    /\ keep_segments = <<>>
    /\ current_pos = 0
    /\ i = 1
    /\ merged = <<>>
    /\ j = 1
    /\ result = <<>>
    /\ pc = "scan"
    /\ NoEdit

OverlapSpec == OverlapInit /\ [][Next]_vars

----------------------------------------------------------------------------
(* Vocabulary of the properties *)

Returned == pc = "done"

IsExample ==
    /\ video_duration_ms = Example.video_duration_ms
    /\ silences = Example.silences
    /\ padding_ms = Example.padding_ms

\* millisecond t lies in one of the intervals of segs
Covered(t, segs) ==
    \E k \in 1..Len(segs) : segs[k][1] <= t /\ t < segs[k][2]

\* millisecond t of the media is neither silent nor kept
Dropped(t) ==
    /\ 0 <= t
    /\ t < video_duration_ms
    /\ ~Covered(t, silences)
    /\ ~Covered(t, result)

\* sorted by start, pairwise disjoint, each of positive length
WellFormed(segs) ==
    /\ \A k \in 1..Len(segs) : segs[k][1] < segs[k][2]
    /\ \A k \in 1..(Len(segs) - 1) :
          /\ segs[k][1] < segs[k + 1][1]
          /\ segs[k][2] <= segs[k + 1][1]

----------------------------------------------------------------------------
(* C1..C10: the planner *)

\* C1: with total duration 10000, silences [(2000, 3000), (6000, 6500)] and
\* padding 100 the planner returns exactly [(0, 2100), (2900, 6100),
\* (6400, 10000)].
C1_WorkedExample ==
    (Returned /\ IsExample) =>
        result = <<<<0, 2100>>, <<2900, 6100>>, <<6400, 10000>>>>

C1_Witness ==
    Returned /\ IsExample /\ Len(result) = 3

\* C2: for every valid input the returned keep intervals are sorted by start,
\* pairwise non-overlapping, and each has start < end.
C2_SortedDisjoint ==
    (Returned /\ ValidInput) => WellFormed(result)

\* a padding wider than half a silence made the scan emit overlapping
\* segments, and the call returned
C2_Witness ==
    /\ Returned
    /\ ValidInput
    /\ \E k \in 1..(Len(keep_segments) - 1) :
          keep_segments[k + 1][1] < keep_segments[k][2]

\* C3: for every valid input every returned keep interval lies inside
\* [0, total duration].
C3_InsideMedia ==
    (Returned /\ ValidInput) =>
        \A k \in 1..Len(result) :
            0 <= result[k][1] /\ result[k][2] <= video_duration_ms

\* the padding reaches past both ends of the media and the call returned
C3_Witness ==
    /\ Returned
    /\ ValidInput
    /\ result # <<>>
    /\ \E k \in 1..Len(silences) :
          /\ silences[k][2] - padding_ms < 0
          /\ silences[k][1] + padding_ms > video_duration_ms

\* C4: with an empty silence list the planner returns exactly one keep
\* interval, (0, total duration), whatever the padding.
C4_NoSilenceIdentity ==
    (Returned /\ silences = <<>> /\ video_duration_ms > 0 /\ padding_ms >= 0) =>
        result = <<<<0, video_duration_ms>>>>

C4_Witness ==
    Returned /\ silences = <<>> /\ padding_ms > 0 /\ Len(result) = 1

\* C5: for every valid input every millisecond of [0, total duration) that
\* lies in no silence interval lies in some returned keep interval.
C5_KeepsAllNonSilent ==
    (Returned /\ ValidInput) =>
        \A t \in 0..(video_duration_ms - 1) : ~Dropped(t)

\* C6: for every valid input every run of milliseconds that is neither kept
\* nor silent is at most padding_ms long.
C6_GapsWithinPadding ==
    (Returned /\ ValidInput) =>
        \A a \in 0..(video_duration_ms - 1) :
            Dropped(a) => \E t \in a..(a + padding_ms) : ~Dropped(t)

\* a run of exactly padding_ms dropped milliseconds
C6_Witness ==
    /\ Returned
    /\ ValidInput
    /\ padding_ms > 0
    /\ \E a \in 0..(video_duration_ms - 1) :
          \A t \in a..(a + padding_ms - 1) : Dropped(t)

\* C7: when the first silence is (0, k), no keep interval precedes it: every
\* emitted and every returned keep interval starts at or after the cursor
\* position max(k - padding_ms, 0) and has positive length.
C7_LeadingSilence ==
    (silences # <<>> /\ silences[1][1] = 0) =>
        LET k == silences[1][2]
            NotBefore(segs) ==
                \A n \in 1..Len(segs) :
                    /\ segs[n][1] >= Max(k - padding_ms, 0)
                    /\ segs[n][1] < segs[n][2]
        IN NotBefore(keep_segments) /\ NotBefore(merged) /\ NotBefore(result)

C7_Witness ==
    /\ Returned
    /\ silences # <<>>
    /\ silences[1][1] = 0
    /\ padding_ms > 0
    /\ result # <<>>
    /\ result[1][1] = silences[1][2] - padding_ms
    /\ result[1][1] > 0

\* C8 as stated: when the last silence ends exactly at the total duration,
\* the cursor ends at or past the total duration and no returned keep
\* interval starts inside or after that silence.
C8_NoTrailingSegment ==
    (Returned /\ ValidInput /\ silences # <<>>
        /\ silences[Len(silences)][2] = video_duration_ms) =>
        /\ current_pos >= video_duration_ms
        /\ \A k \in 1..Len(result) : result[k][1] < silences[Len(silences)][1]

\* C8 as amended: when the last silence ends exactly at the total duration,
\* the cursor ends at or past total duration - padding_ms, and every returned
\* keep interval that starts inside that silence starts at or after
\* total duration - padding_ms: the trailing interval is at most padding_ms
\* long, and there is none when padding_ms = 0.
C8_TrailingWithinPadding ==
    (Returned /\ ValidInput /\ silences # <<>>
        /\ silences[Len(silences)][2] = video_duration_ms) =>
        /\ current_pos >= video_duration_ms - padding_ms
        /\ \A k \in 1..Len(result) :
              result[k][1] >= silences[Len(silences)][1] =>
                  /\ result[k][1] >= video_duration_ms - padding_ms
                  /\ result[k][1] < video_duration_ms
                  /\ padding_ms > 0

\* a trailing interval of exactly padding_ms inside the last silence
C8_Witness ==
    /\ Returned
    /\ ValidInput
    /\ silences # <<>>
    /\ silences[Len(silences)][2] = video_duration_ms
    /\ padding_ms > 0
    /\ Len(result) >= 2
    /\ result[Len(result)] = <<video_duration_ms - padding_ms, video_duration_ms>>
    /\ result[Len(result)][1] > silences[Len(silences)][1]

\* C9: the cursor never moves backward, and no keep interval with
\* start > end is ever emitted, also when the padding is larger than a
\* silence.
C9_CursorForward ==
    [][/\ current_pos' >= current_pos
       /\ \A k \in 1..Len(keep_segments') :
             keep_segments'[k][1] <= keep_segments'[k][2]]_vars

\* the scan has passed a silence shorter than the padding and emitted since
C9_Witness ==
    /\ pc = "scan"
    /\ keep_segments # <<>>
    /\ \E k \in 1..(i - 1) :
          /\ silences[k][2] - silences[k][1] < padding_ms
          /\ silences[k][2] - padding_ms < 0
          /\ k < Len(silences)

\* the case C10 pins: each silence starts strictly after the previous one
\* ends and is at least 2 * padding_ms + 50 ms long, the first starts later
\* than padding_ms
PinnedOverlap ==
    /\ ValidInput
    /\ \A k \in 1..Len(silences) :
          silences[k][2] - silences[k][1] >= 2 * padding_ms + MergeGap
    /\ \A k \in 1..(Len(silences) - 1) : silences[k][2] < silences[k + 1][1]
    /\ silences # <<>> => silences[1][1] > padding_ms

\* C10: in the pinned case, the keep-interval lengths plus the silence
\* lengths sum to total duration + 2 * padding_ms * (number of silences).
C10_DurationAccounting ==
    (Returned /\ PinnedOverlap) =>
        SumLen(result) + SumLen(silences) =
            video_duration_ms + 2 * padding_ms * Len(silences)

\* a silence of exactly 2 * padding_ms + 50 ms, with a positive padding
C10_Witness ==
    /\ Returned
    /\ PinnedOverlap
    /\ padding_ms > 0
    /\ \E k \in 1..Len(silences) :
          silences[k][2] - silences[k][1] = 2 * padding_ms + MergeGap

----------------------------------------------------------------------------
(* C11..C20: validation, edit_video and assemble_video *)

\* names of the steps started so far, in order
StepNames == [k \in 1..Len(steps) |-> steps[k][1]]

\* the steps that invoke an external program
ToolSteps == {"probe", "extract_audio", "extract_segment", "concat", "probe_final"}

\* number of external invocations so far
ToolCalls == Cardinality({k \in 1..Len(steps) : steps[k][1] \in ToolSteps})

EditOver == epc \in {"returned", "raised"}

\* C11: the planner rejects invalid inputs with a validation error before
\* doing any processing, and returns no keep intervals for them: on an
\* invalid input no statement of the scan or merge runs and the call does
\* not return a list.
C11_RejectsInvalid ==
    (epc = "none" /\ ~ValidInput) =>
        /\ pc = "scan"
        /\ i = 1
        /\ keep_segments = <<>>
        /\ merged = <<>>

\* C12: edit_video fails on malformed settings before any external tool is
\* invoked: with a non-negative threshold, a negative min_silence_ms or a
\* negative padding_ms no step is ever started.
C12_ValidatesSettings ==
    (epc # "none" /\ ~ValidSettings) => steps = <<>>

\* C13: when the source path does not exist, edit_video raises the
\* not-found error before any processing: no step is started, no temporary
\* file exists and nothing is written at the destination.
C13_SourceNotFound ==
    (epc \notin {"none", "start"} /\ ~source_exists) =>
        /\ epc = "raised"
        /\ raised = "FileNotFoundError"
        /\ steps = <<>>
        /\ temp_files = {}
        /\ dest \in {"absent", "old"}
        /\ edit_result = <<>>

C13_Witness ==
    /\ epc = "raised"
    /\ ~source_exists
    /\ raised = "FileNotFoundError"
    /\ dest = "old"

\* C14: when the external media tool is not installed, edit_video fails
\* after a single invocation attempt with an error that differs from the
\* not-found error raised for a missing source file.
C14_DependencyUnavailable ==
    (epc # "none" /\ source_exists /\ ~tool_installed /\ steps # <<>>) =>
        /\ epc = "raised"
        /\ ToolCalls = 1
        /\ raised # "FileNotFoundError"

\* the order of the steps of an edit that keeps n segments
Canon(n) ==
    <<"probe", "extract_audio", "detect", "plan", "assemble">>
        \o [k \in 1..n |-> "extract_segment"]
        \o <<"concat", "probe_final", "result">>

IsPrefix(a, b) ==
    /\ Len(a) <= Len(b)
    /\ \A k \in 1..Len(a) : a[k] = b[k]

\* C15: the steps start in the order probe, extract audio, detect, plan,
\* assemble (extractions, then concatenation), probe final, build result;
\* a step starts only when every step before it succeeded (a segment
\* extraction may also have ended non-zero); after a failure of a probe,
\* the audio extraction, the detection or the concatenation no step starts
\* and no result is returned.
C15_StepOrder ==
    epc # "none" =>
        /\ IsPrefix(StepNames, Canon(Len(result)))
        /\ \A k \in 1..(Len(steps) - 1) :
              \/ steps[k][2] = "ok"
              \/ steps[k] = <<"extract_segment", "nonzero">>
        /\ edit_result # <<>> =>
              /\ StepNames = Canon(Len(result))
              /\ \A k \in 1..Len(steps) :
                    steps[k][1] # "extract_segment" => steps[k][2] = "ok"
        /\ (steps # <<>>
              /\ steps[Len(steps)][1] # "extract_segment"
              /\ steps[Len(steps)][2] # "ok") =>
                 (epc \in {"raised", "hung"} /\ edit_result = <<>>)

\* a complete edit of three segments, and its result
C15_Witness ==
    /\ epc = "returned"
    /\ Len(result) = 3
    /\ edit_result # <<>>

\* concat_list.txt has been written
ManifestWritten ==
    epc = "concat" \/ \E k \in 1..Len(steps) : steps[k][1] = "concat"

\* every step started so far succeeded
AllSucceeded == \A k \in 1..Len(steps) : steps[k][2] = "ok"

\* the part of the source a keep interval stands for
Footage(segment) ==
    IF segment[1] < segment[2] THEN segment ELSE <<segment[1], segment[1]>>

\* C16: the manifest has exactly one entry per keep interval, entry k being
\* the segment extracted for interval k, and when every tool call succeeded
\* the concatenation leaves at the destination the source content of the
\* keep intervals in interval order.
C16_ManifestOrder ==
    /\ ManifestWritten => manifest = [k \in 1..Len(result) |-> k]
    /\ (dest = "complete" /\ AllSucceeded) =>
          dest_content = [k \in 1..Len(result) |-> Footage(result[k])]

C16_Witness ==
    /\ dest = "complete"
    /\ AllSucceeded
    /\ Len(result) = 3
    /\ Len(manifest) = 3

\* C17: once edit_video has returned or raised, no temporary file of the
\* run is left: not the extracted audio, no segment file, not the manifest.
C17_NoTempFilesLeft ==
    EditOver => temp_files = {}

\* the concatenation failed after at least one segment was extracted
C17_Witness ==
    /\ epc = "raised"
    /\ steps # <<>>
    /\ steps[Len(steps)] = <<"concat", "nonzero">>
    /\ \E k \in 1..Len(steps) : steps[k] = <<"extract_segment", "ok">>
    /\ \E k \in 1..Len(steps) : steps[k] = <<"extract_audio", "ok">>

\* C18: whenever edit_video raises, no partial output file is left at the
\* destination path.
C18_NoPartialOutput ==
    epc = "raised" => dest # "partial"

\* C19: every external call is bounded by a timeout, so edit_video never
\* blocks for ever on an external program that does not exit.
C19_AlwaysTerminates ==
    epc # "hung"

\* C20: a segment extraction that ends non-zero does not abort the edit:
\* edit_video does not raise before the concatenation is invoked, and when
\* the concatenation is invoked every segment has been through extraction.
C20_ExtractionFailureContinues ==
    \A k \in 1..Len(steps) :
        steps[k] = <<"extract_segment", "nonzero">> =>
            /\ epc = "raised" =>
                  \E m \in (k + 1)..Len(steps) : steps[m][1] = "concat"
            /\ ManifestWritten =>
                  /\ Len(segment_files) = Len(result)
                  /\ Cardinality({m \in 1..Len(steps) :
                                     steps[m][1] = "extract_segment"}) = Len(result)

\* the first of three extractions failed, the other two were made and the
\* concatenation was invoked
C20_Witness ==
    /\ Len(result) = 3
    /\ Len(steps) >= 9
    /\ steps[6] = <<"extract_segment", "nonzero">>
    /\ steps[7] = <<"extract_segment", "ok">>
    /\ steps[8] = <<"extract_segment", "ok">>
    /\ steps[9][1] = "concat"

----------------------------------------------------------------------------
(* Assembly and result of edit_video *)

\* how the extraction of segment k ended: an edit that reaches the
\* extraction loop has started five steps before it
ExtractionOutcome(k) == steps[5 + k][2]

\* C21: the concat manifest lists only the segments whose extraction ended
\* with return code zero; a segment whose extraction failed is left out of
\* it.
C21_ManifestOmitsFailed ==
    (ManifestWritten /\ ValidSettings) =>
        \A n \in 1..Len(manifest) : ExtractionOutcome(manifest[n]) = "ok"

\* C22: when the concatenation ends non-zero, edit_video raises the
\* RuntimeError of assemble_video: the concatenation is the last step it
\* started, the final probe is never run and no result is returned.
C22_ConcatFailureFatal ==
    \A k \in 1..Len(steps) :
        steps[k] = <<"concat", "nonzero">> =>
            /\ epc = "raised"
            /\ raised = "RuntimeError"
            /\ k = Len(steps)
            /\ final_duration_ms = 0
            /\ edit_result = <<>>

\* the concatenation failed after an extraction had failed
C22_Witness ==
    /\ epc = "raised"
    /\ ValidSettings
    /\ steps # <<>>
    /\ steps[Len(steps)] = <<"concat", "nonzero">>
    /\ \E k \in 1..Len(steps) : steps[k] = <<"extract_segment", "nonzero">>

\* the record edit_video returned says what the call did
ResultFaithful ==
    /\ Len(edit_result) = 1
    /\ Cardinality({k \in 1..Len(steps) : steps[k][1] = "result"}) = 1
    /\ steps[Len(steps)] = <<"result", "ok">>
    /\ edit_result[1].segments_kept = Len(result)
    /\ edit_result[1].silences_detected = Len(silences)
    /\ edit_result[1].settings =
          [silence_thresh |-> silence_thresh,
           min_silence_ms |-> min_silence_ms,
           padding_ms |-> padding_ms]

\* C23 as stated: the result record is built once, only after every step
\* succeeded, with segments_kept the number of keep intervals the planner
\* returned, silences_detected the number of intervals the detector
\* returned, and the caller's settings unchanged.
C23_ResultAfterAllSucceeded ==
    edit_result # <<>> => (AllSucceeded /\ ResultFaithful)

\* C23 amended: the result record is built once, after every step other
\* than a segment extraction succeeded, with the same counts and settings.
C23_ResultAfterRequiredSteps ==
    edit_result # <<>> =>
        /\ \A k \in 1..Len(steps) :
              steps[k][1] # "extract_segment" => steps[k][2] = "ok"
        /\ ResultFaithful

\* a result returned although an extraction had ended non-zero, its two
\* counts being different
C23_Witness ==
    /\ epc = "returned"
    /\ edit_result # <<>>
    /\ ~AllSucceeded
    /\ Len(result) # Len(silences)

----------------------------------------------------------------------------
(* The merge pass and the planner on overlapping silences *)

\* the gap between the emitted segments k and k + 1
EmittedGap(k) == keep_segments[k + 1][1] - keep_segments[k][2]

\* C24: the merge pass joins two consecutive emitted keep intervals exactly
\* when the gap between them is below 50 ms: consecutive returned intervals
\* are at least 50 ms apart, and two emitted intervals stay separate in the
\* returned list exactly when their gap is 50 ms or more.
C24_MergeThreshold ==
    Returned =>
        /\ \A n \in 1..(Len(result) - 1) :
              result[n + 1][1] - result[n][2] >= MergeGap
        /\ \A k \in 1..(Len(keep_segments) - 1) :
              (EmittedGap(k) >= MergeGap) <=>
                  \E n \in 1..(Len(result) - 1) :
                      /\ result[n][2] = keep_segments[k][2]
                      /\ result[n + 1][1] = keep_segments[k + 1][1]

\* a gap of exactly 50 ms left unmerged next to a smaller gap that was closed
C24_Witness ==
    /\ Returned
    /\ \E n \in 1..(Len(result) - 1) :
          result[n + 1][1] - result[n][2] = MergeGap
    /\ \E k \in 1..(Len(keep_segments) - 1) : EmittedGap(k) < MergeGap

\* the silences are sorted by start, each with start < end inside the media
SortedByStart ==
    /\ \A k \in 1..Len(silences) :
          /\ 0 <= silences[k][1]
          /\ silences[k][1] < silences[k][2]
          /\ silences[k][2] <= video_duration_ms
    /\ \A k \in 1..(Len(silences) - 1) : silences[k][1] <= silences[k + 1][1]

\* two of the silences overlap
SomeOverlap ==
    \E k \in 1..(Len(silences) - 1) : silences[k + 1][1] < silences[k][2]

\* the cursor position the scan reaches after silence k, at the least
CursorAfter(k) == Max(silences[k][2] - padding_ms, 0)

\* C25: for silences sorted by start that may overlap or touch, the
\* returned keep intervals are sorted, pairwise disjoint and of positive
\* length, each starts where an emitted interval starts, and whenever an
\* interval is emitted it starts at or after the cursor position reached
\* after every silence visited before.
C25_OverlappingSilences ==
    /\ []((Returned /\ SortedByStart) =>
            /\ WellFormed(result)
            /\ \A n \in 1..Len(result) :
                  \E k \in 1..Len(keep_segments) :
                      result[n][1] = keep_segments[k][1])
    /\ [][(SortedByStart /\ Len(keep_segments') > Len(keep_segments)) =>
              \A k \in 1..(i - 1) :
                  keep_segments'[Len(keep_segments')][1] >= CursorAfter(k)]_vars

\* a silence nested in an earlier, longer one, and a keep interval
\* returned after both
C25_Witness ==
    /\ Returned
    /\ SortedByStart
    /\ SomeOverlap
    /\ silences[2][2] < silences[1][2]
    /\ padding_ms < silences[1][2] - silences[2][2]
    /\ \E n \in 1..Len(result) : result[n][1] >= silences[1][2] - padding_ms

----------------------------------------------------------------------------
(* The files edit_video touches *)

\* the concatenation has not been started
BeforeConcat == \A k \in 1..Len(steps) : steps[k][1] # "concat"

\* C26: only the concatenation writes to the destination path: as long as
\* it has not been started, and so when edit_video fails before it, the
\* file at the destination is the one that was there when the call began.
C26_DestinationUntouched ==
    (epc # "none" /\ BeforeConcat) =>
        /\ dest = dest_before
        /\ dest_content = <<>>

\* the audio extraction failed and an older file is at the destination
C26_Witness ==
    /\ epc = "raised"
    /\ dest_before = "old"
    /\ ~same_path
    /\ steps # <<>>
    /\ steps[Len(steps)] = <<"extract_audio", "nonzero">>

----------------------------------------------------------------------------
(* How much the planner removes *)

\* C27: for valid input the planner never removes more than the silence it
\* was given: the total duration minus the total length of the returned
\* keep intervals is at most the total length of the silences.
C27_RemovesAtMostSilence ==
    (Returned /\ ValidInput) =>
        video_duration_ms - SumLen(result) <= SumLen(silences)

\* content that is not silent was removed before a first silence that
\* starts within the padding, and a second silence was cut
C27_Witness ==
    /\ Returned
    /\ ValidInput
    /\ Len(silences) = 2
    /\ Len(result) = 2
    /\ \E t \in 0..padding_ms : Dropped(t)

\* C28: edit_video never starts the concatenation on an empty manifest:
\* for every valid planner input, a silence spanning the whole media with
\* padding 0 included, the planner returns at least one keep interval.
C28_NeverEmptyManifest ==
    (epc # "none" /\ ValidInput /\ ~BeforeConcat) => manifest # <<>>

\* the source video is as it was when the call began; when output_path
\* names the source, the file at the destination is the source
SourceIntact == same_path => dest = dest_before

\* C29: an edit never modifies its source video, whatever destination path
\* the caller gives, the source path itself included.
C29_SourceUntouched ==
    epc # "none" => SourceIntact

\* assemble_video has been called
Assembling == \E k \in 1..Len(steps) : steps[k][1] = "assemble"

\* C30: edit_video never hands assemble_video a keep interval with
\* start >= end, whatever silences the detector returned, silences past the
\* probed duration included.
C30_NoDegenerateInterval ==
    (epc # "none" /\ ValidSettings /\ Assembling) =>
        \A k \in 1..Len(result) : result[k][1] < result[k][2]

====
